---- MODULE Spec2Model ----
(***************************************************************************)
(* Attendance ledger of src/app.py: the check-in / check-out handlers, the *)
(* schedule board and the export, as request handlers run by concurrent    *)
(* workers against one database.  Each handler is cut at the points where  *)
(* it reads the clock, queries the database and commits.                   *)
(*                                                                         *)
(* Time is an integer number of seconds since the start of the year        *)
(* (Asia/Jakarta wall clock, no DST): instant = (day-of-year-1)*86400+sec. *)
(***************************************************************************)
EXTENDS Integers, Sequences, FiniteSets, TLC

VARIABLES
    attendance,      \* table `attendance`: sequence of rows, row id = index
    user_schedules,  \* table `user_schedules`: sequence of rows (with id)
    next_sched_id,   \* the serial of user_schedules.id
    clock,           \* the last instant get_server_time() returned
    pc,              \* per worker: where its request handler stands
    req,             \* per worker: the handler's local variables
    response,        \* what the last step sent back, NoResponse if it sent nothing
    scope            \* the requests the run is made of: how many, and their inputs

vars == <<attendance, user_schedules, next_sched_id, clock, pc, req, response, scope>>

-----------------------------------------------------------------------------
(* Bounds of the model *)

NumWorkers == 2      \* concurrent request handlers
MaxReads == 3        \* requests that read the clock (check-ins and check-outs)
MaxScheds == 1       \* rows ever added to user_schedules
MaxDates == 1        \* calendar dates the clock runs through under Spec
RuleReads == 2       \* clock-reading requests under SpecClassify and SpecOvertime
RuleDates == 2       \* calendar dates the clock runs through under them
BoardReads == 2      \* clock-reading requests under SpecShift
BoardScheds == 2     \* rows ever added to user_schedules under SpecShift
GridReads == 2       \* clock-reading requests under SpecHarian
GridDates == 3       \* calendar dates the clock runs through under SpecHarian

Workers == 1..NumWorkers

-----------------------------------------------------------------------------
(* Calendar and clock *)

SecondsPerDay == 24 * 3600

HMS(h, m, s) == h * 3600 + m * 60 + s

\* Days before each month of a non-leap year.
DaysBeforeMonth == <<0, 31, 59, 90, 120, 151, 181, 212, 243, 273, 304, 334>>

\* A date is its ordinal in the year (1 = 1 January).
YMD(month, day) == DaysBeforeMonth[month] + day

MonthOf(date) == CHOOSE m \in 1..12 :
    /\ DaysBeforeMonth[m] < date
    /\ (m = 12 \/ date <= DaysBeforeMonth[m + 1])

\* date.day / df['date'].dt.day
DayOf(date) == date - DaysBeforeMonth[MonthOf(date)]

\* TIMEZONE = pytz.timezone('Asia/Jakarta'): UTC+7, no daylight saving
UtcOffset == 7 * 3600

\* An instant is a number of seconds (UTC) since the start of the year; an aware
\* datetime in TIMEZONE is its instant, and its fields are those of its wall clock.
Wall(t) == t + UtcOffset

\* TIMEZONE.localize(naive): the instant of a Jakarta wall-clock reading
Localize(wall) == wall - UtcOffset

\* dt.date() of an aware datetime in TIMEZONE
DateOf(t) == (Wall(t) \div SecondsPerDay) + 1

\* seconds since midnight on the wall clock of dt
SecOf(t) == Wall(t) % SecondsPerDay

\* TIMEZONE.localize(datetime.datetime.combine(date, time)), and
\* dt.replace(hour=, minute=, second=0, microsecond=0) of an aware dt of that date
Combine(date, sec) == Localize((date - 1) * SecondsPerDay + sec)

\* The dates the clock runs through, in order: 12 Jan, 12 Feb, 13 Feb, 1 Mar.
Calendar == <<YMD(1, 12), YMD(2, 12), YMD(2, 13), YMD(3, 1)>>

\* The instants at which requests read the clock: the wall-clock times `first`
\* on the first of `dates` dates and `later` on the later ones.
ClockValues(dates, first, later) ==
    {Combine(Calendar[1], s) : s \in first}
        \cup {Combine(Calendar[i], s) : i \in 2..dates, s \in later}

None == 0 - 1        \* a NULL time / a NULL user id
NoSession == 0 - 2   \* no 'user_id' in the session

-----------------------------------------------------------------------------
(* Configuration *)

\* SHIFT_RULES
SHIFT_RULES == [
    Pagi  |-> [start |-> HMS(10, 0, 0), end |-> HMS(16, 0, 0), ops_pulang |-> HMS(16, 0, 0),
               code_staff |-> "P", code_spv |-> "1"],
    Siang |-> [start |-> HMS(12, 0, 0), end |-> HMS(20, 0, 0), ops_pulang |-> HMS(20, 0, 0),
               code_staff |-> "S", code_spv |-> "2"],
    Sore  |-> [start |-> HMS(16, 0, 0), end |-> HMS(22, 0, 0), ops_pulang |-> HMS(22, 0, 0),
               code_staff |-> "M", code_spv |-> "2"]]

\* data.get('shift') when the request carries no shift
NoShift == "<None>"

\* `not shift_type or shift_type not in SHIFT_RULES`
ShiftUnknown(shift) == shift = NoShift \/ shift = "" \/ shift \notin DOMAIN SHIFT_RULES

\* grace_period = datetime.timedelta(minutes=15)
GraceMinutes == 15

\* The users seed_db.py creates: id -> role.
Users == [u \in 1..3 |-> IF u = 1 THEN "ADMIN" ELSE IF u = 2 THEN "SPV" ELSE "STAFF"]

UserIds == DOMAIN Users

\* The branch tag of an employee, absent ("") for the organization-wide role.
\* Table users (lines 43-49) has no such column: the tags are those of the
\* specification's scenario.
branch == [u \in UserIds |-> CASE Users[u] = "ADMIN" -> ""
                               [] Users[u] = "SPV" -> "Jakbar"
                               [] OTHER -> "Cabang 2"]

\* session['user_role'], set at login from the user's row
RoleOf(session) == IF session \in UserIds THEN Users[session] ELSE "<None>"

Photos == {"selfie"}

Geos == {<<-6, 106>>}

-----------------------------------------------------------------------------
(* Helpers *)

\* calculate_status with the grace period's end counted as late
calculate_status_ge(check_in_time, shift_type) ==
    IF ShiftUnknown(shift_type)
    THEN "Hadir"
    ELSE LET shift_start == Combine(DateOf(check_in_time), SHIFT_RULES[shift_type].start)
             grace_period == GraceMinutes * 60
         IN IF check_in_time >= shift_start + grace_period THEN "Terlambat" ELSE "Hadir"

\* calculate_status with lateness counted only until the shift's end
calculate_status_window(check_in_time, shift_type) ==
    IF ShiftUnknown(shift_type)
    THEN "Hadir"
    ELSE LET shift_start == Combine(DateOf(check_in_time), SHIFT_RULES[shift_type].start)
             shift_end == Combine(DateOf(check_in_time), SHIFT_RULES[shift_type].end)
             grace_period == GraceMinutes * 60
         IN IF check_in_time > shift_start + grace_period /\ check_in_time <= shift_end
            THEN "Terlambat" ELSE "Hadir"

\* calculate_status(check_in_time, shift_type)
calculate_status(check_in_time, shift_type) ==
    IF ShiftUnknown(shift_type)
    THEN "Hadir"
    ELSE LET shift_start == Combine(DateOf(check_in_time), SHIFT_RULES[shift_type].start)
             grace_period == GraceMinutes * 60
         IN IF check_in_time > shift_start + grace_period THEN "Terlambat" ELSE "Hadir"

\* A datetime as the database driver returns it: aware (tzinfo set, `t` the
\* instant) or naive (`t` the Jakarta wall-clock reading that was stored).
NoneDt == [tzinfo |-> FALSE, t |-> None]

\* the value a DateTime column loads as; `naive` is the driver's choice
\* (SQLite returns naive datetimes, PostgreSQL aware ones)
Load(t, naive) ==
    IF t = None THEN NoneDt
    ELSE IF naive THEN [tzinfo |-> FALSE, t |-> Wall(t)]
    ELSE [tzinfo |-> TRUE, t |-> t]

\* ensure_timezone(dt): the instant of dt, a naive dt being Jakarta wall clock
ensure_timezone(dt) ==
    IF dt.t = None THEN None
    ELSE IF ~dt.tzinfo THEN Localize(dt.t)
    ELSE dt.t

\* int(x / 60) for a number of seconds x: truncation toward zero
IntMinutes(seconds) == IF seconds >= 0 THEN seconds \div 60 ELSE -((-seconds) \div 60)

\* the query with the date left out of the filter
RowsForUser(user_id, date) ==
    {i \in DOMAIN attendance : attendance[i].user_id = user_id}

\* Attendance.query.filter_by(user_id=..., date=...): the ids of the matching rows
RowsFor(user_id, date) ==
    {i \in DOMAIN attendance : attendance[i].user_id = user_id /\ attendance[i].date = date}

\* the existence check counting only the rows that are checked out
ExistingCheckedOut(user_id, date) ==
    \E i \in RowsFor(user_id, date) : attendance[i].check_out_time # None

\* lines 314-315: `existing` is truthy
Existing(user_id, date) == RowsFor(user_id, date) # {}

\* the check-out test never finding a check-out time
AlreadyOutNever(row) == FALSE

\* line 357: `attendance.check_out_time` is truthy
AlreadyOut(row) == row.check_out_time # None

\* a row built with the overtime flag taken as set
NewAttendanceOvertime(user_id, now, shift, photo, geo) ==
    [user_id |-> user_id,
     date |-> DateOf(now),
     shift_type |-> shift,
     check_in_time |-> now,
     check_in_photo |-> photo,
     check_in_geo |-> geo,
     check_out_time |-> None,
     check_out_photo |-> "",
     check_out_geo |-> <<>>,
     status |-> calculate_status(now, shift),
     is_overtime |-> TRUE,
     duration_minutes |-> 0]

\* Attendance(...) as api_check_in builds it
NewAttendance(user_id, now, shift, photo, geo) ==
    [user_id |-> user_id,
     date |-> DateOf(now),
     shift_type |-> shift,
     check_in_time |-> now,
     check_in_photo |-> photo,
     check_in_geo |-> geo,
     check_out_time |-> None,
     check_out_photo |-> "",
     check_out_geo |-> <<>>,
     status |-> calculate_status(now, shift),
     is_overtime |-> FALSE,
     duration_minutes |-> 0]

\* an insert that overwrites the newest row of the table
SessionAddOverwrite(table, row) ==
    IF table = <<>> THEN <<row>> ELSE [table EXCEPT ![Len(table)] = row]

\* db.session.add(row); db.session.commit()
SessionAdd(table, row) == Append(table, row)

\* a check-out that classifies the row again, from the check-out time
CheckOutUpdateRestatus(row, check_in_time, now, photo, geo, is_overtime) ==
    [row EXCEPT !.check_out_time = now,
                !.check_out_photo = photo,
                !.check_out_geo = geo,
                !.is_overtime = is_overtime,
                !.duration_minutes = IntMinutes(now - ensure_timezone(check_in_time)),
                !.status = calculate_status(now, row.shift_type)]

\* the assignments of api_check_out to the row it loaded, as the UPDATE applies
\* them (check_in_time is the value the handler loaded)
CheckOutUpdate(row, check_in_time, now, photo, geo, is_overtime) ==
    [row EXCEPT !.check_out_time = now,
                !.check_out_photo = photo,
                !.check_out_geo = geo,
                !.is_overtime = is_overtime,
                !.duration_minutes = IntMinutes(now - ensure_timezone(check_in_time))]

Idle == [op |-> "none", user |-> NoSession, now |-> None, shift |-> NoShift,
         photo |-> "", geo |-> <<>>, is_overtime |-> FALSE, row |-> 0,
         check_in_time |-> NoneDt]

-----------------------------------------------------------------------------
(* Export helpers.  A formatted string is the sequence of its characters. *)

Digits == <<"0", "1", "2", "3", "4", "5", "6", "7", "8", "9">>

\* f"{n:02}" for 0 <= n < 100
Pad2(n) == <<Digits[(n \div 10) + 1], Digits[(n % 10) + 1]>>

\* dt.strftime("%H:%M:%S") of an aware datetime in TIMEZONE
StrfHMS(t) ==
    LET sec == SecOf(t)
    IN Pad2(sec \div 3600) \o <<":">> \o Pad2((sec % 3600) \div 60) \o <<":">> \o Pad2(sec % 60)

\* WAKTU_LEMBUR with the seconds of the remainder taken for its minutes
WaktuLemburSeconds(check_out_dt, ops_pulang_dt) ==
    IF check_out_dt > ops_pulang_dt
    THEN LET total_seconds == check_out_dt - ops_pulang_dt
             hours == total_seconds \div 3600
             remainder == total_seconds % 3600
             minutes == remainder % 60
         IN Pad2(hours) \o <<":">> \o Pad2(minutes)
    ELSE <<>>

\* lines 584-590: WAKTU_LEMBUR of a row
WaktuLembur(check_out_dt, ops_pulang_dt) ==
    IF check_out_dt > ops_pulang_dt
    THEN LET total_seconds == check_out_dt - ops_pulang_dt
             hours == total_seconds \div 3600
             remainder == total_seconds % 3600
             minutes == remainder \div 60
         IN Pad2(hours) \o <<":">> \o Pad2(minutes)
    ELSE <<>>

\* lines 567-570: the rows Report C keeps
InLembur(a) == a.check_out_time # None /\ ~ShiftUnknown(a.shift_type)

\* lines 572-601: the row of sheet 'Lembur' for attendance row a
LemburRow(a, naive) ==
    LET check_in == ensure_timezone(Load(a.check_in_time, naive))
        check_out == ensure_timezone(Load(a.check_out_time, naive))
        ops_pulang_dt == Combine(a.date, SHIFT_RULES[a.shift_type].ops_pulang)
    IN [ID |-> a.user_id,
        TANGGAL |-> <<MonthOf(a.date), DayOf(a.date)>>,
        TIPE_SHIFT |-> a.shift_type,
        TIMESTAMP_IN |-> IF check_in # None THEN StrfHMS(check_in) ELSE <<>>,
        OPS_MULAI |-> SHIFT_RULES[a.shift_type].start,
        OPS_PULANG |-> SHIFT_RULES[a.shift_type].ops_pulang,
        TIMESTAMP_OUT |-> StrfHMS(check_out),
        WAKTU_LEMBUR |-> WaktuLembur(check_out, ops_pulang_dt)]

\* lines 563-608: sheet 'Lembur' over the rows of table attendance
ReportC(rows, naive) ==
    LET kept == SelectSeq(rows, InLembur)
    IN [i \in 1..Len(kept) |-> LemburRow(kept[i], naive)]

\* line 411: User.query.filter(User.role != 'ADMIN').all()
Roster == SelectSeq([u \in 1..Len(Users) |-> u], LAMBDA u : Users[u] # "ADMIN")

\* range(1, 32): the day columns of sheets 'Absensi Harian' and 'Absensi Shift'
Days == 1..31

\* A grid row keeps the cells of the days some frame row falls on; every other
\* day column holds the initial value of lines 458 and 504, the empty string.
CellOf(cells, day) == IF day \in DOMAIN cells THEN cells[day] ELSE ""

\* lines 417-433: df_att, the attendance rows in the order of the table, with
\* the column 'day' (the day of the month of the row's date)
AttFrame(table) ==
    [i \in DOMAIN table |-> [user_id |-> table[i].user_id, date |-> table[i].date,
                             status |-> table[i].status, shift |-> table[i].shift_type,
                             day |-> DayOf(table[i].date)]]

\* lines 436-446: df_sched, with its column 'day'
SchedFrame(table) ==
    [i \in DOMAIN table |-> [user_id |-> table[i].user_id, date |-> table[i].date,
                             status |-> table[i].status, day |-> DayOf(table[i].date)]]

\* user_atts[user_atts['day'] == day].iloc[0]: the first row of the frame for
\* that user and day of the month, 0 if there is none
FirstOn(rows, user_id, day) ==
    LET found == {i \in DOMAIN rows : rows[i].user_id = user_id /\ rows[i].day = day}
    IN IF found = {} THEN 0 ELSE CHOOSE i \in found : \A j \in found : i <= j

\* lines 462-468: the cell of sheet 'Absensi Harian' for a status
HarianCell(status) ==
    CASE status = "Hadir" -> "H"
      [] status = "Terlambat" -> "T"
      [] OTHER -> ""

\* lines 451-473: the row of sheet 'Absensi Harian' for a user
HarianRow(rows, no, user_id) ==
    LET days == {rows[i].day : i \in {j \in DOMAIN rows : rows[j].user_id = user_id}}
        cells == [day \in days \cap Days |-> HarianCell(rows[FirstOn(rows, user_id, day)].status)]
    IN [NO |-> no, NAMA |-> user_id,
        TotalHari |-> Cardinality({day \in DOMAIN cells : cells[day] \in {"H", "T"}}),
        cells |-> cells]

\* lines 448-480: sheet 'Absensi Harian'
ReportA(rows) == [no \in DOMAIN Roster |-> HarianRow(rows, no, Roster[no])]

\* lines 517-523: the shift code of a role
ShiftCode(role, shift) ==
    IF role = "SPV"
    THEN CASE shift = "Pagi" -> "1"
           [] shift \in {"Siang", "Sore"} -> "2"
           [] OTHER -> ""
    ELSE CASE shift = "Pagi" -> "P"
           [] shift = "Siang" -> "S"
           [] shift = "Sore" -> "M"
           [] OTHER -> ""

\* the schedule code with OFF counted as a permit
ScheduleCodeOffCounted(status) ==
    CASE status = "SAKIT" -> [code |-> "Skt", sakit |-> 1, izin |-> 0]
      [] status \in {"IZIN", "CUTI"} -> [code |-> "Izn", sakit |-> 0, izin |-> 1]
      [] status = "OFF" -> [code |-> "Lbr", sakit |-> 0, izin |-> 1]
      [] OTHER -> [code |-> "", sakit |-> 0, izin |-> 0]

\* lines 538-546: the code of a schedule status and the counter it increments
ScheduleCode(status) ==
    CASE status = "SAKIT" -> [code |-> "Skt", sakit |-> 1, izin |-> 0]
      [] status \in {"IZIN", "CUTI"} -> [code |-> "Izn", sakit |-> 0, izin |-> 1]
      [] status = "OFF" -> [code |-> "Lbr", sakit |-> 0, izin |-> 0]
      [] OTHER -> [code |-> "", sakit |-> 0, izin |-> 0]

\* lines 498-499, 530-536: sched_day.iloc[0], the first row of the schedule frame
\* that is the user's or global and falls on that day of the month, 0 if none
FirstSched(scheds, user_id, day) ==
    LET found == {i \in DOMAIN scheds : /\ scheds[i].user_id \in {user_id, None}
                                        /\ scheds[i].day = day}
    IN IF found = {} THEN 0 ELSE CHOOSE i \in found : \A j \in found : i <= j

\* the day of sheet 'Absensi Shift' with the schedule consulted before the
\* attendance
ShiftDayScheduleFirst(rows, scheds, user_id, day) ==
    LET i == FirstOn(rows, user_id, day)
        k == FirstSched(scheds, user_id, day)
    IN IF k # 0
       THEN [hadir |-> 0] @@ ScheduleCode(scheds[k].status)
       ELSE IF i # 0
       THEN [code |-> ShiftCode(Users[user_id], rows[i].shift), hadir |-> 1,
             sakit |-> 0, izin |-> 0]
       ELSE [code |-> "", hadir |-> 0, sakit |-> 0, izin |-> 0]

\* lines 503-548: one day of sheet 'Absensi Shift' for a user: the code and what
\* the day adds to the counters
ShiftDay(rows, scheds, user_id, day) ==
    LET i == FirstOn(rows, user_id, day)
        k == FirstSched(scheds, user_id, day)
    IN IF i # 0
       THEN [code |-> ShiftCode(Users[user_id], rows[i].shift), hadir |-> 1,
             sakit |-> 0, izin |-> 0]
       ELSE IF k # 0
       THEN [hadir |-> 0] @@ ScheduleCode(scheds[k].status)
       ELSE [code |-> "", hadir |-> 0, sakit |-> 0, izin |-> 0]

\* lines 485-553: the row of sheet 'Absensi Shift' for a user
ShiftRow(rows, scheds, no, user_id) ==
    LET on == {rows[i].day : i \in {j \in DOMAIN rows : rows[j].user_id = user_id}}
              \cup {scheds[i].day :
                      i \in {j \in DOMAIN scheds : scheds[j].user_id \in {user_id, None}}}
        days == [day \in on \cap Days |-> ShiftDay(rows, scheds, user_id, day)]
    IN [NO |-> no, NAMA |-> user_id,
        Alpa |-> 0,
        Sakit |-> Cardinality({day \in DOMAIN days : days[day].sakit = 1}),
        Izin |-> Cardinality({day \in DOMAIN days : days[day].izin = 1}),
        ShiftHadir |-> Cardinality({day \in DOMAIN days : days[day].hadir = 1}),
        cells |-> [day \in DOMAIN days |-> days[day].code]]

\* lines 482-560: sheet 'Absensi Shift'
ReportB(rows, scheds) == [no \in DOMAIN Roster |-> ShiftRow(rows, scheds, no, Roster[no])]

\* the role test refusing only the requests without a session
NotAdminTierAnonymous(session) == RoleOf(session) = "<None>"

\* session['user_role'] not in ['ADMIN', 'SPV']
NotAdminTier(session) == RoleOf(session) \notin {"ADMIN", "SPV"}

Sessions == UserIds \cup {NoSession}

\* the form fields of /admin/schedule/add; an absent date is None, an absent
\* status the empty string

\* UserSchedule.query.get(id): the index of the row with that id, 0 if none
SchedIndex(id) ==
    IF \E i \in DOMAIN user_schedules : user_schedules[i].id = id
    THEN CHOOSE i \in DOMAIN user_schedules : user_schedules[i].id = id
    ELSE 0

\* db.session.delete(row); db.session.commit()
SessionDelete(table, i) == [j \in 1..(Len(table) - 1) |-> IF j < i THEN table[j] ELSE table[j + 1]]

\* a response without a workbook, to the request of `session`
Response(session, message) ==
    [message |-> message, session |-> session, harian |-> <<>>, shift |-> <<>>,
     lembur |-> <<>>]

\* the step sent nothing
NoResponse == Response(NoSession, "")

-----------------------------------------------------------------------------
(* State after construction: db.create_all() and seed_db.seed() *)

\* The requests a run is made of: the workers that take requests and the values
\* the requests carry (`sessions`: the sessions of the requests to the schedule
\* board and to the export).  Spec: one employee's requests, handled concurrently.
LedgerRun ==
    [workers |-> NumWorkers, users |-> {3}, shifts |-> {"Pagi"}, flags |-> BOOLEAN,
     times |-> ClockValues(MaxDates, {HMS(10, 14, 0), HMS(16, 45, 0), HMS(16, 46, 0)},
                           {HMS(10, 14, 0)}),
     sessions |-> {NoSession, 2},
     sched_users |-> {None}, sched_dates |-> {Calendar[1]}, sched_statuses |-> {"OFF"}]

\* SpecClassify: requests handled one at a time, at the instants around the start
\* of the shifts.
ClassifyRun ==
    [workers |-> 1, users |-> {2, 3}, shifts |-> {"Pagi", "Sore", "Malam", NoShift},
     flags |-> {FALSE},
     times |-> ClockValues(RuleDates, {HMS(10, 14, 0), HMS(10, 15, 0), HMS(10, 16, 0),
                                       HMS(16, 45, 0)},
                           {HMS(10, 14, 0)}),
     sessions |-> {NoSession, 2},
     sched_users |-> {None}, sched_dates |-> {Calendar[1]}, sched_statuses |-> {"OFF"}]

\* SpecOvertime: requests handled one at a time, at the instants around the
\* departure of the shifts.
OvertimeRun ==
    [workers |-> 1, users |-> {3}, shifts |-> {"Pagi", "Sore", "Malam"}, flags |-> {FALSE},
     times |-> ClockValues(RuleDates, {HMS(10, 14, 0), HMS(15, 59, 0), HMS(16, 0, 0),
                                       HMS(16, 0, 30), HMS(16, 45, 0), HMS(16, 46, 0)},
                           {HMS(16, 45, 0)}),
     sessions |-> {NoSession, 2},
     sched_users |-> {None}, sched_dates |-> {Calendar[1]}, sched_statuses |-> {"OFF"}]

\* SpecShift: requests handled one at a time, with schedule rows for one employee
\* and for all on a day the employees check in.
ShiftRun ==
    [workers |-> 1, users |-> {2, 3}, shifts |-> {"Pagi", "Sore"}, flags |-> {FALSE},
     times |-> ClockValues(1, {HMS(10, 14, 0), HMS(10, 16, 0), HMS(16, 45, 0)}, {}),
     sessions |-> {NoSession, 2},
     sched_users |-> {None, 3}, sched_dates |-> {Calendar[1]},
     sched_statuses |-> {"SAKIT", "OFF"}]

\* SpecHarian: requests handled one at a time, on dates of several months, with a
\* schedule row of any status, asked for by every kind of session.
HarianRun ==
    [workers |-> 1, users |-> {3}, shifts |-> {"Pagi"}, flags |-> {FALSE},
     times |-> ClockValues(GridDates, {HMS(10, 14, 0), HMS(10, 16, 0)},
                           {HMS(10, 14, 0), HMS(10, 16, 0)}),
     sessions |-> Sessions,
     sched_users |-> {None}, sched_dates |-> {Calendar[1], Calendar[3]},
     sched_statuses |-> {"SAKIT", "IZIN", "CUTI", "OFF", "LIBUR"}]

\* the run the behaviour belongs to
Run ==
    CASE scope.run = "ledger" -> LedgerRun
      [] scope.run = "classify" -> ClassifyRun
      [] scope.run = "overtime" -> OvertimeRun
      [] scope.run = "shift" -> ShiftRun
      [] scope.run = "harian" -> HarianRun

\* a request is taken by the free worker with the lowest number
Free(p) == p <= Run.workers /\ pc[p] = "idle" /\ \A q \in Workers : q < p => pc[q] # "idle"

\* `scope` names the run and counts the clock-reading requests and the schedule
\* rows still to come.
InitScoped(run, reads, scheds) ==
    /\ attendance = <<>>
    /\ user_schedules = <<>>
    /\ next_sched_id = 1
    /\ clock = 0
    /\ pc = [p \in Workers |-> "idle"]
    /\ req = [p \in Workers |-> Idle]
    /\ response = NoResponse
    /\ scope = [run |-> run, reads |-> reads, scheds |-> scheds]

Init == InitScoped("ledger", MaxReads, MaxScheds)

\* a response is sent and the handler returns
Reply(p, session, message) ==
    /\ pc' = [pc EXCEPT ![p] = "idle"]
    /\ req' = [req EXCEPT ![p] = Idle]
    /\ response' = Response(session, message)

-----------------------------------------------------------------------------
(* /api/check_in *)

\* lines 301-302: no session
CheckInUnauthorized(p) ==
    /\ Free(p)
    /\ Reply(p, NoSession, "Unauthorized")
    /\ UNCHANGED <<attendance, user_schedules, next_sched_id, clock, scope>>

\* lines 304-311: read the request and the clock
CheckInBegin(p) ==
    /\ Free(p)
    /\ \E user \in Run.users, shift \in Run.shifts, photo \in Photos, geo \in Geos,
          now \in Run.times :
        /\ scope.reads > 0
        /\ now > clock
        /\ clock' = now
        /\ req' = [req EXCEPT ![p] = [Idle EXCEPT !.op = "check_in", !.user = user,
                                       !.now = now, !.shift = shift, !.photo = photo,
                                       !.geo = geo]]
    /\ pc' = [pc EXCEPT ![p] = "ci_query"]
    /\ response' = NoResponse
    /\ scope' = [scope EXCEPT !.reads = @ - 1]
    /\ UNCHANGED <<attendance, user_schedules, next_sched_id>>

\* lines 314-316: the existence check
CheckInQuery(p) ==
    /\ pc[p] = "ci_query"
    /\ IF Existing(req[p].user, DateOf(req[p].now))
       THEN Reply(p, req[p].user, "AlreadyCheckedIn")
       ELSE /\ pc' = [pc EXCEPT ![p] = "ci_insert"]
            /\ response' = NoResponse
            /\ UNCHANGED req
    /\ UNCHANGED <<attendance, user_schedules, next_sched_id, clock, scope>>

\* lines 320-337: build the row, insert, commit
CheckInInsert(p) ==
    /\ pc[p] = "ci_insert"
    /\ attendance' = SessionAdd(attendance,
                        NewAttendance(req[p].user, req[p].now, req[p].shift,
                                      req[p].photo, req[p].geo))
    /\ Reply(p, req[p].user, "CheckInOK")
    /\ UNCHANGED <<user_schedules, next_sched_id, clock, scope>>

-----------------------------------------------------------------------------
(* /api/check_out *)

\* lines 341-342: no session
CheckOutUnauthorized(p) ==
    /\ Free(p)
    /\ Reply(p, NoSession, "Unauthorized")
    /\ UNCHANGED <<attendance, user_schedules, next_sched_id, clock, scope>>

\* lines 344-351: read the request and the clock
CheckOutBegin(p) ==
    /\ Free(p)
    /\ \E user \in Run.users, photo \in Photos, geo \in Geos,
          is_overtime \in Run.flags, now \in Run.times :
        /\ scope.reads > 0
        /\ now > clock
        /\ clock' = now
        /\ req' = [req EXCEPT ![p] = [Idle EXCEPT !.op = "check_out", !.user = user,
                                       !.now = now, !.photo = photo, !.geo = geo,
                                       !.is_overtime = is_overtime]]
    /\ pc' = [pc EXCEPT ![p] = "co_query"]
    /\ response' = NoResponse
    /\ scope' = [scope EXCEPT !.reads = @ - 1]
    /\ UNCHANGED <<attendance, user_schedules, next_sched_id>>

\* lines 353-358: load today's row (.first() of an unordered query: any matching
\* row) and test its check-out time
CheckOutQuery(p) ==
    /\ pc[p] = "co_query"
    /\ LET found == RowsFor(req[p].user, DateOf(req[p].now))
       IN IF found = {}
          THEN Reply(p, req[p].user, "NoCheckInFound")
          ELSE \E id \in found :
                 IF AlreadyOut(attendance[id])
                 THEN Reply(p, req[p].user, "AlreadyCheckedOut")
                 ELSE /\ pc' = [pc EXCEPT ![p] = "co_write"]
                      /\ \E naive \in BOOLEAN :
                           req' = [req EXCEPT ![p].row = id,
                                              ![p].check_in_time =
                                                  Load(attendance[id].check_in_time, naive)]
                      /\ response' = NoResponse
    /\ UNCHANGED <<attendance, user_schedules, next_sched_id, clock, scope>>

\* lines 360-376: set the check-out fields and the duration, commit
CheckOutWrite(p) ==
    /\ pc[p] = "co_write"
    /\ attendance' = [attendance EXCEPT ![req[p].row] =
                        CheckOutUpdate(@, req[p].check_in_time, req[p].now, req[p].photo,
                                       req[p].geo, req[p].is_overtime)]
    /\ Reply(p, req[p].user, "CheckOutOK")
    /\ UNCHANGED <<user_schedules, next_sched_id, clock, scope>>

-----------------------------------------------------------------------------
(* /admin/schedule/add *)

\* lines 199-200
AddScheduleUnauthorized(p) ==
    /\ Free(p)
    /\ \E session \in Run.sessions :
        /\ NotAdminTier(session)
        /\ Reply(p, session, "Unauthorized")
    /\ UNCHANGED <<attendance, user_schedules, next_sched_id, clock, scope>>

\* lines 202-207
AddScheduleMissing(p) ==
    /\ Free(p)
    /\ \E date_str \in Run.sched_dates \cup {None},
          status \in Run.sched_statuses \cup {""} :
        date_str = None \/ status = ""
    /\ \E session \in Run.sessions :
        /\ ~NotAdminTier(session)
        /\ Reply(p, session, "MissingData")
    /\ UNCHANGED <<attendance, user_schedules, next_sched_id, clock, scope>>

\* lines 209-227
AddSchedule(p) ==
    /\ Free(p)
    /\ scope.scheds > 0
    /\ \E user_id \in Run.sched_users, date \in Run.sched_dates,
          status \in Run.sched_statuses :
        /\ user_schedules' = SessionAdd(user_schedules,
                                [id |-> next_sched_id, user_id |-> user_id,
                                 date |-> date, status |-> status, description |-> ""])
    /\ next_sched_id' = next_sched_id + 1
    /\ scope' = [scope EXCEPT !.scheds = @ - 1]
    /\ \E session \in Run.sessions :
        /\ ~NotAdminTier(session)
        /\ Reply(p, session, "Redirect")
    /\ UNCHANGED <<attendance, clock>>

-----------------------------------------------------------------------------
(* /admin/schedule/delete/<id> *)

\* lines 231-232
DeleteScheduleUnauthorized(p) ==
    /\ Free(p)
    /\ \E session \in Run.sessions :
        /\ NotAdminTier(session)
        /\ Reply(p, session, "Unauthorized")
    /\ UNCHANGED <<attendance, user_schedules, next_sched_id, clock, scope>>

\* lines 234-239
DeleteSchedule(p) ==
    /\ Free(p)
    /\ \E id \in 1..next_sched_id :
        /\ user_schedules' = IF SchedIndex(id) # 0
                             THEN SessionDelete(user_schedules, SchedIndex(id))
                             ELSE user_schedules
    /\ \E session \in Run.sessions :
        /\ ~NotAdminTier(session)
        /\ Reply(p, session, "Redirect")
    /\ UNCHANGED <<attendance, next_sched_id, clock, scope>>

-----------------------------------------------------------------------------
(* /export *)

\* lines 406-407
ExportUnauthorized(p) ==
    /\ Free(p)
    /\ \E session \in Run.sessions :
        /\ NotAdminTier(session)
        /\ Reply(p, session, "Unauthorized")
    /\ UNCHANGED <<attendance, user_schedules, next_sched_id, clock, scope>>

\* lines 409-620
Export(p) ==
    /\ Free(p)
    /\ LET df_att == AttFrame(attendance)
           df_sched == SchedFrame(user_schedules)
           df_report_a == ReportA(df_att)
           df_report_b == ReportB(df_att, df_sched)
       IN \E session \in Run.sessions, naive \in BOOLEAN :
            /\ ~NotAdminTier(session)
            /\ response' = [message |-> "Workbook", session |-> session,
                            harian |-> df_report_a,
                            shift |-> df_report_b,
                            lembur |-> ReportC(attendance, naive)]
    /\ pc' = [pc EXCEPT ![p] = "idle"]
    /\ req' = [req EXCEPT ![p] = Idle]
    /\ UNCHANGED <<attendance, user_schedules, next_sched_id, clock, scope>>

-----------------------------------------------------------------------------

Next ==
    \E p \in Workers :
        \/ CheckInUnauthorized(p)
        \/ CheckInBegin(p)
        \/ CheckInQuery(p)
        \/ CheckInInsert(p)
        \/ CheckOutUnauthorized(p)
        \/ CheckOutBegin(p)
        \/ CheckOutQuery(p)
        \/ CheckOutWrite(p)
        \/ AddScheduleUnauthorized(p)
        \/ AddScheduleMissing(p)
        \/ AddSchedule(p)
        \/ DeleteScheduleUnauthorized(p)
        \/ DeleteSchedule(p)
        \/ ExportUnauthorized(p)
        \/ Export(p)

Spec == Init /\ [][Next]_vars

-----------------------------------------------------------------------------
(* The shift rules: requests handled one at a time, at the instants around   *)
(* the start (SpecClassify) and the departure (SpecOvertime) of the shifts.  *)

InitClassify == InitScoped("classify", RuleReads, 1)

SpecClassify == InitClassify /\ [][Next]_vars

InitOvertime == InitScoped("overtime", RuleReads, 1)

SpecOvertime == InitOvertime /\ [][Next]_vars

-----------------------------------------------------------------------------
(* The sheets of the export: requests handled one at a time, with a schedule *)
(* board of several rows (SpecShift) and with attendance of several months   *)
(* (SpecHarian).                                                             *)

InitShift == InitScoped("shift", BoardReads, BoardScheds)

SpecShift == InitShift /\ [][Next]_vars

InitHarian == InitScoped("harian", GridReads, 1)

SpecHarian == InitHarian /\ [][Next]_vars

-----------------------------------------------------------------------------
(* Properties *)

Rows == DOMAIN attendance

\* the step in which worker p leaves the place `at` of its handler
Leaves(p, at) == pc[p] = at /\ pc'[p] # at

\* C1: under any interleaving of concurrent check-ins, the ledger holds at most one
\* row per (employee, date).
C1_OneRecordPerKey ==
    \A i, j \in Rows :
        (attendance[i].user_id = attendance[j].user_id
            /\ attendance[i].date = attendance[j].date) => i = j

\* C2: a check-in whose existence check finds a row for (employee, now.date) fails
\* with AlreadyCheckedIn and leaves the ledger as it is; one that finds none goes
\* on to add exactly one row, with that key, and changes no other row.
C2_CheckInOnce ==
    [][\A p \in Workers :
          /\ Leaves(p, "ci_query") =>
                IF \E i \in Rows : /\ attendance[i].user_id = req[p].user
                                   /\ attendance[i].date = DateOf(req[p].now)
                THEN /\ response'.message = "AlreadyCheckedIn"
                     /\ pc'[p] = "idle"
                     /\ attendance' = attendance
                ELSE /\ pc'[p] = "ci_insert"
                     /\ attendance' = attendance
          /\ Leaves(p, "ci_insert") =>
                /\ response'.message = "CheckInOK"
                /\ Len(attendance') = Len(attendance) + 1
                /\ SubSeq(attendance', 1, Len(attendance)) = attendance
                /\ attendance'[Len(attendance')].user_id = req[p].user
                /\ attendance'[Len(attendance')].date = DateOf(req[p].now)
      ]_vars

C2_Witness ==
    /\ response.message = "AlreadyCheckedIn"
    /\ attendance # <<>>

\* C3: a check-out that finds no row for today fails with NoCheckInFound, one
\* whose row for today is checked out already fails with AlreadyCheckedOut, and a
\* check-out that fails either way changes no row.
C3_CheckOutFailures ==
    [][\A p \in Workers :
          /\ Leaves(p, "co_query") =>
                LET found == {i \in Rows : /\ attendance[i].user_id = req[p].user
                                           /\ attendance[i].date = DateOf(req[p].now)}
                IN /\ found = {} =>
                        /\ response'.message = "NoCheckInFound"
                        /\ pc'[p] = "idle"
                   /\ (found # {} /\ \A i \in found : attendance[i].check_out_time # None) =>
                        /\ response'.message = "AlreadyCheckedOut"
                        /\ pc'[p] = "idle"
          /\ response'.message \in {"NoCheckInFound", "AlreadyCheckedOut"} =>
                attendance' = attendance
      ]_vars

C3_Witness ==
    /\ response.message = "AlreadyCheckedOut"
    /\ \E i \in Rows : attendance[i].check_out_time # None

\* the state of a key: 0 NoRecord, 1 CheckedIn, 2 CheckedOut
KeyState(table, user_id, date) ==
    LET found == {i \in DOMAIN table : table[i].user_id = user_id /\ table[i].date = date}
    IN IF found = {} THEN 0
       ELSE IF \E i \in found : table[i].check_out_time # None THEN 2
       ELSE 1

\* C4: no step deletes or re-keys a row or clears a check-out time, so the state
\* of every (employee, date) key only moves forward.
C4_ForwardOnly ==
    [][/\ \A i \in Rows :
            /\ i \in DOMAIN attendance'
            /\ attendance'[i].user_id = attendance[i].user_id
            /\ attendance'[i].date = attendance[i].date
            /\ attendance[i].check_out_time # None => attendance'[i].check_out_time # None
       /\ \A i \in Rows :
            KeyState(attendance', attendance[i].user_id, attendance[i].date)
                >= KeyState(attendance, attendance[i].user_id, attendance[i].date)
      ]_vars

C4_Witness ==
    /\ \E i \in Rows : attendance[i].check_out_time # None
    /\ Len(attendance) >= 2
    /\ user_schedules = <<>> /\ next_sched_id > 1
    /\ response.message = "Workbook"

\* C5: a row that has a check-out time has it strictly after its check-in time.
C5_CheckOutAfterCheckIn ==
    \A i \in Rows :
        attendance[i].check_out_time # None =>
            attendance[i].check_out_time > attendance[i].check_in_time

\* C6: the status of every row is the classification of its check-in time and
\* shift, and no step changes the status of a row.
C6_StatusFixed ==
    /\ [](\A i \in Rows :
            attendance[i].status =
                calculate_status(attendance[i].check_in_time, attendance[i].shift_type))
    /\ [][\A i \in Rows : attendance'[i].status = attendance[i].status]_vars

C6_Witness ==
    \E i \in Rows :
        /\ attendance[i].shift_type = "Pagi"
        /\ attendance[i].status = "Hadir"
        /\ attendance[i].check_out_time = Combine(attendance[i].date, HMS(16, 45, 0))

\* the start of the known shifts, as wall-clock seconds
ShiftStarts == [Pagi |-> 10 * 3600, Siang |-> 12 * 3600, Sore |-> 16 * 3600]

\* C7: a row is Late (Terlambat) exactly when its shift is known and it was
\* checked in strictly later than the shift's start on that date plus 15 minutes,
\* and Present (Hadir) otherwise; for Pagi, 10:14 and 10:15 are Present, 10:16 Late.
C7_ClassifyRule ==
    \A i \in Rows :
        LET a == attendance[i]
            late == /\ a.shift_type \in DOMAIN ShiftStarts
                    /\ a.check_in_time >
                         (a.date - 1) * 86400 - 7 * 3600
                            + ShiftStarts[a.shift_type] + 15 * 60
        IN /\ a.status = IF late THEN "Terlambat" ELSE "Hadir"
           /\ a.shift_type = "Pagi" =>
                /\ SecOf(a.check_in_time) = HMS(10, 14, 0) => a.status = "Hadir"
                /\ SecOf(a.check_in_time) = HMS(10, 15, 0) => a.status = "Hadir"
                /\ SecOf(a.check_in_time) = HMS(10, 16, 0) => a.status = "Terlambat"

C7_Witness ==
    /\ \E i \in Rows : /\ attendance[i].shift_type = "Pagi"
                       /\ SecOf(attendance[i].check_in_time) = HMS(10, 15, 0)
                       /\ attendance[i].status = "Hadir"
    /\ \E i \in Rows : /\ attendance[i].shift_type = "Pagi"
                       /\ SecOf(attendance[i].check_in_time) = HMS(10, 16, 0)
                       /\ attendance[i].status = "Terlambat"

\* C8 as stated: for one shift, of two rows the one checked in later is Late
\* whenever the earlier one is.
C8_Monotonic ==
    \A i, j \in Rows :
        (/\ attendance[i].shift_type = attendance[j].shift_type
         /\ attendance[i].check_in_time < attendance[j].check_in_time
         /\ attendance[i].status = "Terlambat") => attendance[j].status = "Terlambat"

\* C8, amended: for one shift and one calendar date, of two rows the one checked
\* in later is Late whenever the earlier one is.
C8_MonotonicSameDate ==
    \A i, j \in Rows :
        (/\ attendance[i].shift_type = attendance[j].shift_type
         /\ attendance[i].date = attendance[j].date
         /\ attendance[i].check_in_time < attendance[j].check_in_time
         /\ attendance[i].status = "Terlambat") => attendance[j].status = "Terlambat"

C8_Witness ==
    \E i, j \in Rows :
        /\ attendance[i].shift_type = "Pagi" /\ attendance[j].shift_type = "Pagi"
        /\ attendance[i].date = attendance[j].date
        /\ SecOf(attendance[i].check_in_time) = HMS(10, 16, 0)
        /\ SecOf(attendance[j].check_in_time) = HMS(16, 45, 0)
        /\ attendance[i].status = "Terlambat" /\ attendance[j].status = "Terlambat"

\* the number a two-digit field of a formatted string stands for
DigitValue(c) == CHOOSE d \in 0..9 : Digits[d + 1] = c

Field2(str, at) == 10 * DigitValue(str[at]) + DigitValue(str[at + 1])

\* the minutes an "HH:MM" overtime cell stands for, 0 for the empty cell
CellMinutes(cell) == IF cell = <<>> THEN 0 ELSE 60 * Field2(cell, 1) + Field2(cell, 4)

\* the wall-clock seconds an "HH:MM:SS" cell stands for
CellSeconds(cell) == 3600 * Field2(cell, 1) + 60 * Field2(cell, 4) + Field2(cell, 7)

\* the official departure of the known shifts, as wall-clock seconds
ShiftDepartures == [Pagi |-> 16 * 3600, Siang |-> 20 * 3600, Sore |-> 22 * 3600]

\* C9: in every row of the overtime sheet the overtime is 0 when the check-out is
\* at or before the shift's departure, and the whole minutes past it otherwise;
\* for Pagi a check-out at 16:45 gives 45 and one at 15:59 gives 0.
C9_PotentialOvertime ==
    \A k \in DOMAIN response.lembur :
        LET row == response.lembur[k]
            out == CellSeconds(row.TIMESTAMP_OUT)
            departure == ShiftDepartures[row.TIPE_SHIFT]
            minutes == CellMinutes(row.WAKTU_LEMBUR)
        IN /\ out <= departure => minutes = 0
           /\ out > departure => minutes = (out - departure) \div 60
           /\ (row.TIPE_SHIFT = "Pagi" /\ row.TIMESTAMP_OUT = <<"1", "6", ":", "4", "5", ":", "0", "0">>)
                 => minutes = 45
           /\ (row.TIPE_SHIFT = "Pagi" /\ row.TIMESTAMP_OUT = <<"1", "5", ":", "5", "9", ":", "0", "0">>)
                 => minutes = 0

C9_Witness ==
    \E k \in DOMAIN response.lembur :
        /\ response.lembur[k].TIPE_SHIFT = "Pagi"
        /\ response.lembur[k].TIMESTAMP_OUT = <<"1", "6", ":", "4", "5", ":", "0", "0">>
        /\ response.lembur[k].WAKTU_LEMBUR = <<"0", "0", ":", "4", "5">>

\* C10: no request of a STAFF actor sets the overtime flag of a row.
C10_StaffNeverSetsOvertime ==
    [][\A p \in Workers :
          (Leaves(p, "co_write") /\ RoleOf(req[p].user) = "STAFF") =>
              \A i \in Rows : attendance'[i].is_overtime => attendance[i].is_overtime
      ]_vars

\* C11: a row whose overtime flag is set has a check-out time, and a row enters
\* the table with the flag unset.
C11_OvertimeOnlyCheckedOut ==
    /\ [](\A i \in Rows : attendance[i].is_overtime => attendance[i].check_out_time # None)
    /\ [][\A i \in DOMAIN attendance' :
             i \notin Rows => ~attendance'[i].is_overtime]_vars

C11_Witness ==
    \E i \in Rows : attendance[i].is_overtime /\ attendance[i].check_out_time # None

\* C12: a workbook sent to a viewer of role SPV holds no attendance of an employee
\* whose branch differs from the viewer's.
C12_BranchVisibility ==
    (response.message = "Workbook" /\ RoleOf(response.session) = "SPV") =>
        /\ \A k \in DOMAIN response.harian :
              DOMAIN response.harian[k].cells # {} =>
                  branch[response.harian[k].NAMA] = branch[response.session]
        /\ \A k \in DOMAIN response.shift :
              response.shift[k].ShiftHadir > 0 =>
                  branch[response.shift[k].NAMA] = branch[response.session]
        /\ \A k \in DOMAIN response.lembur :
              branch[response.lembur[k].ID] = branch[response.session]

\* the days of the month on which a user has a row in table attendance
PresentDays(user_id) ==
    {DayOf(attendance[i].date) : i \in {j \in Rows : attendance[j].user_id = user_id}}

\* the statuses of the schedule rows of a day of the month that name `owner`
\* (a user, or None for the global rows)
StatusesOn(owner, day) ==
    {user_schedules[i].status :
        i \in {j \in DOMAIN user_schedules : /\ user_schedules[j].user_id = owner
                                             /\ DayOf(user_schedules[j].date) = day}}

\* the report code of a leave status
LeaveCodes == [SAKIT |-> "Skt", IZIN |-> "Izn", CUTI |-> "Izn", OFF |-> "Lbr"]

\* the shift code of a role, from the shift rules
RoleCode(role, shift) ==
    IF ShiftUnknown(shift) THEN ""
    ELSE IF role = "SPV" THEN SHIFT_RULES[shift].code_spv ELSE SHIFT_RULES[shift].code_staff

\* C13: in sheet 'Absensi Shift', a day on which the employee has an attendance
\* row shows the shift code of the employee's role and counts in Shift Hadir; it
\* never shows Skt, Izn or Lbr and adds nothing to Sakit or Izin, whatever
\* schedule rows exist for it.
C13_PresenceOverridesSchedule ==
    response.message = "Workbook" =>
        \A k \in DOMAIN response.shift :
            LET row == response.shift[k]
                present == PresentDays(row.NAMA)
            IN /\ \A day \in present :
                    /\ CellOf(row.cells, day) \in
                          {RoleCode(Users[row.NAMA], attendance[i].shift_type) :
                              i \in {j \in Rows : /\ attendance[j].user_id = row.NAMA
                                                  /\ DayOf(attendance[j].date) = day}}
                    /\ CellOf(row.cells, day) \notin {"Skt", "Izn", "Lbr"}
               /\ row.ShiftHadir = Cardinality(present)
               /\ row.Sakit = Cardinality({day \in Days \ present : CellOf(row.cells, day) = "Skt"})
               /\ row.Izin = Cardinality({day \in Days \ present : CellOf(row.cells, day) = "Izn"})

C13_Witness ==
    /\ response.message = "Workbook"
    /\ \E k \in DOMAIN response.shift :
          /\ response.shift[k].NAMA = 3
          /\ 12 \in PresentDays(3)
          /\ StatusesOn(3, 12) # {} /\ StatusesOn(None, 12) # {}
          /\ response.shift[k].cells[12] = "P"
          /\ response.shift[k].ShiftHadir = 1
    /\ \E k \in DOMAIN response.shift :
          response.shift[k].NAMA = 2 /\ CellOf(response.shift[k].cells, 12) = "2"

\* C14: in sheet 'Absensi Shift', a day without attendance for which the employee
\* has a schedule row of their own and a global one shows the code of the
\* employee's own row, in whichever order the rows were added.
C14_SpecificBeforeGlobal ==
    response.message = "Workbook" =>
        \A k \in DOMAIN response.shift :
            LET row == response.shift[k]
            IN \A day \in Days \ PresentDays(row.NAMA) :
                  (StatusesOn(row.NAMA, day) # {} /\ StatusesOn(None, day) # {}) =>
                      CellOf(row.cells, day) \in
                          {LeaveCodes[status] : status \in StatusesOn(row.NAMA, day)}

\* the codes a day without attendance may show: those of the schedule rows of
\* the day that are the employee's or global, nothing if there are none
LeaveCodesOn(user_id, day) ==
    LET statuses == StatusesOn(user_id, day) \cup StatusesOn(None, day)
    IN IF statuses = {} THEN {""}
       ELSE {IF status \in DOMAIN LeaveCodes THEN LeaveCodes[status] ELSE "" :
                status \in statuses}

\* C15: on a day without attendance, sheet 'Absensi Shift' shows Skt for SAKIT
\* and counts it in Sakit, Izn for IZIN or CUTI and counts it in Izin, Lbr for
\* OFF and counts it nowhere, and nothing when there is no schedule row; sheet
\* 'Absensi Harian' leaves the day empty and out of Total Hari.
C15_LeaveCodes ==
    response.message = "Workbook" =>
        \A k \in DOMAIN response.shift :
            LET row == response.shift[k]
                harian == response.harian[k]
                absent == Days \ PresentDays(row.NAMA)
            IN /\ harian.NAMA = row.NAMA
               /\ \A day \in absent :
                    /\ CellOf(row.cells, day) \in LeaveCodesOn(row.NAMA, day)
                    /\ CellOf(harian.cells, day) = ""
               /\ row.Sakit = Cardinality({day \in absent : CellOf(row.cells, day) = "Skt"})
               /\ row.Izin = Cardinality({day \in absent : CellOf(row.cells, day) = "Izn"})
               /\ harian.TotalHari <= Cardinality(PresentDays(row.NAMA))

C15_Witness ==
    /\ response.message = "Workbook"
    /\ \E k \in DOMAIN response.shift :
          /\ response.shift[k].NAMA = 3
          /\ 12 \notin PresentDays(3)
          /\ StatusesOn(None, 12) = {"OFF"}
          /\ response.shift[k].cells[12] = "Lbr"
          /\ response.shift[k].Sakit = 0 /\ response.shift[k].Izin = 0
          /\ CellOf(response.harian[k].cells, 12) = ""

\* the cell of sheet 'Absensi Harian' for the statuses of the rows of a day
PresenceCells(statuses) ==
    IF statuses = {} THEN {""}
    ELSE {IF status = "Hadir" THEN "H" ELSE IF status = "Terlambat" THEN "T" ELSE "" :
             status \in statuses}

\* C16: sheet 'Absensi Harian' is the grid of one month: the cell of a day is H
\* or T by the status of the employee's row of that day of that month, empty
\* without one, rows of other months leaving no mark; Total Hari counts the
\* cells that are not empty.
C16_HarianOfOneMonth ==
    response.message = "Workbook" =>
        \E month \in 1..12 :
            \A k \in DOMAIN response.harian :
                LET row == response.harian[k]
                IN /\ \A day \in Days :
                        CellOf(row.cells, day) \in
                            PresenceCells({attendance[i].status :
                                i \in {j \in Rows : /\ attendance[j].user_id = row.NAMA
                                                    /\ MonthOf(attendance[j].date) = month
                                                    /\ DayOf(attendance[j].date) = day}})
                   /\ row.TotalHari = Cardinality({day \in Days : CellOf(row.cells, day) # ""})

\* C17: the overtime cell of a row of sheet 'Lembur' is empty exactly when the
\* whole minutes from the departure to the check-out are zero or negative, and
\* is those minutes as zero-padded HH:MM otherwise.
C17_OvertimeCell ==
    \A k \in DOMAIN response.lembur :
        LET row == response.lembur[k]
            out == CellSeconds(row.TIMESTAMP_OUT)
            departure == ShiftDepartures[row.TIPE_SHIFT]
            whole == (out - departure) \div 60
        IN /\ row.WAKTU_LEMBUR = <<>> <=> whole <= 0
           /\ whole > 0 =>
                /\ Len(row.WAKTU_LEMBUR) = 5
                /\ row.WAKTU_LEMBUR[3] = ":"
                /\ Field2(row.WAKTU_LEMBUR, 1) = whole \div 60
                /\ Field2(row.WAKTU_LEMBUR, 4) = whole % 60

\* the number of days of a month of the year
DaysInMonth(month) == IF month = 12 THEN 31 ELSE DaysBeforeMonth[month + 1] - DaysBeforeMonth[month]

\* C18: Alpa of a row of sheet 'Absensi Shift' is the days of the month less the
\* days counted as present, sick, permit and off.
C18_AlpaDerived ==
    response.message = "Workbook" =>
        \A k \in DOMAIN response.shift :
            LET row == response.shift[k]
                off == Cardinality({day \in Days : CellOf(row.cells, day) = "Lbr"})
            IN \E month \in 1..12 :
                  row.Alpa = DaysInMonth(month) - (row.ShiftHadir + row.Sakit + row.Izin + off)

\* C19: a checked-out row's duration is the whole minutes from its check-in to its
\* check-out, and is not negative.
C19_DurationWholeMinutes ==
    \A i \in Rows :
        attendance[i].check_out_time # None =>
            /\ attendance[i].duration_minutes =
                  (attendance[i].check_out_time - attendance[i].check_in_time) \div 60
            /\ attendance[i].duration_minutes >= 0

\* C20: table user_schedules changes only in a step that answers an add or a
\* delete of a session of role ADMIN or SPV; a refused request, a check-in, a
\* check-out and an export leave it as it is.
C20_BoardByAdminTier ==
    [][/\ user_schedules' # user_schedules =>
            /\ response'.message = "Redirect"
            /\ RoleOf(response'.session) \in {"ADMIN", "SPV"}
       /\ RoleOf(response'.session) \in {"STAFF", "<None>"} =>
            /\ user_schedules' = user_schedules
            /\ response'.message # "Redirect"
       /\ response'.message \in {"Unauthorized", "MissingData", "Workbook"} =>
            user_schedules' = user_schedules
       /\ (\E p \in Workers : pc[p] # "idle" /\ pc'[p] # pc[p]) =>
            user_schedules' = user_schedules
      ]_vars

C20_Witness ==
    /\ response.message = "Unauthorized"
    /\ RoleOf(response.session) = "STAFF"
    /\ user_schedules # <<>>

\* C21: a check-in that carries no shift and a schedule add that lacks its date
\* or its status are answered with an error and change neither table.
C21_MissingFieldRejected ==
    [][/\ \A p \in Workers :
            ((Leaves(p, "ci_query") \/ Leaves(p, "ci_insert")) /\ req[p].shift = NoShift) =>
                /\ attendance' = attendance
                /\ user_schedules' = user_schedules
                /\ response'.message # "CheckInOK"
       /\ response'.message = "MissingData" =>
            /\ attendance' = attendance
            /\ user_schedules' = user_schedules
      ]_vars

\* C22: once a row has a check-out time, no step writes its check-out fields or
\* its duration again.
C22_CheckOutWrittenOnce ==
    [][\A i \in Rows :
          attendance[i].check_out_time # None =>
              /\ attendance'[i].check_out_time = attendance[i].check_out_time
              /\ attendance'[i].check_out_photo = attendance[i].check_out_photo
              /\ attendance'[i].check_out_geo = attendance[i].check_out_geo
              /\ attendance'[i].duration_minutes = attendance[i].duration_minutes
      ]_vars

\* C23: a step of a check-in or a check-out changes no row but the one keyed by
\* the caller and the date of the request's clock reading, and adds no row with
\* another key; a row is checked out only at an instant of its own date; a
\* request without a session changes nothing.
C23_FrameOfCaller ==
    [][/\ \A p \in Workers :
            (pc[p] # "idle" /\ pc'[p] # pc[p]) =>
                /\ req[p].user \in UserIds
                /\ \A i \in Rows :
                      (attendance[i].user_id # req[p].user
                          \/ attendance[i].date # DateOf(req[p].now)) =>
                              attendance'[i] = attendance[i]
                /\ \A i \in DOMAIN attendance' \ Rows :
                      /\ attendance'[i].user_id = req[p].user
                      /\ attendance'[i].date = DateOf(req[p].now)
       /\ \A i \in Rows :
            (attendance[i].check_out_time = None /\ attendance'[i].check_out_time # None) =>
                DateOf(attendance'[i].check_out_time) = attendance[i].date
       /\ (response'.message = "Unauthorized" \/ RoleOf(response'.session) = "<None>") =>
            attendance' = attendance
      ]_vars

C23_Witness ==
    /\ response.message = "NoCheckInFound"
    /\ \E i \in Rows :
          /\ attendance[i].user_id = response.session
          /\ attendance[i].check_out_time = None
          /\ attendance[i].date < DateOf(clock)

====
